---- MODULE Spec2Model ----
(***************************************************************************)
(* Model of the retrieval-augmented-generation orchestrator of             *)
(* backend/services/rag_service.py (class RAGService).                     *)
(*                                                                         *)
(* An invocation of query_rag or query_selected_text is a coroutine; one   *)
(* action is the code that runs between two suspension points (await).     *)
(* The three collaborators (gemini_service.get_embedding,                  *)
(* qdrant_store.search_vectors, gemini_service.generate_content) are       *)
(* inputs: each call either returns a value drawn from a bounded pool or   *)
(* raises an exception with a message.                                     *)
(*                                                                         *)
(* Similarity scores and the similarity threshold are kept in thousandths  *)
(* (0.85 is 850, -0.05 is -50), so that the ".3f" formatting of a score is *)
(* exact; scores with more than three decimals are outside the model.      *)
(* Elapsed time is counted in whole ticks since start_time.                *)
(***************************************************************************)
EXTENDS Integers, Sequences, FiniteSets, TLC

(* ---------------------------- bounds ----------------------------------- *)

\* longest hit list the vector index hands back
MaxHits == 2
\* number of invocations served concurrently in SpecConc
NumReq == 2
\* largest elapsed time (ticks) an invocation is followed for
MaxElapsed == 1

(* ----------------------- configuration --------------------------------- *)

\* os.getenv("SIMILARITY_THRESHOLD", 0.7), in thousandths
DefaultSimilarityThreshold == 700
\* os.getenv("MAX_RESULTS", 5)
DefaultMaxResults == 5
\* settings.GEMINI_MODEL
GEMINI_MODEL == "gemini-flash"

\* process environments the service is constructed in (a dict of the set keys)
Environments ==
    { <<>>,
      [SIMILARITY_THRESHOLD |-> 800],
      [MAX_RESULTS |-> 1],
      [SIMILARITY_THRESHOLD |-> 800, MAX_RESULTS |-> 1] }

\* os.getenv(key, default)
getenv(env, key, default) == IF key \in DOMAIN env THEN env[key] ELSE default

(* ------------------------- input pools --------------------------------- *)

Queries == {"What is a humanoid robot?", "What drives a joint?"}
SelectedTexts == {"The sky is blue.", ""}
Vectors == {<<1, 0>>, <<0, 1>>}
Answers == {"A humanoid robot mimics human form."}
Messages == {"quota exceeded"}

\* search hits: payload is a dict that may omit "content" or "filename"
Hit1 == [payload |-> [content |-> "A humanoid robot mimics human form.",
                      filename |-> "ch1.pdf"], score |-> 850]
Hit2 == [payload |-> [content |-> "Actuators drive joints.",
                      filename |-> "ch1.pdf"], score |-> 720]
Hit3 == [payload |-> [content |-> "Sensors measure state."], score |-> 650]
Hit4 == [payload |-> [filename |-> "ch2.pdf"], score |-> 900]
\* a cosine similarity may be negative
Hit5 == [payload |-> [content |-> "Batteries store energy.",
                      filename |-> "ch3.pdf"], score |-> 0 - 50]
Hits == {Hit1, Hit2, Hit3, Hit4, Hit5}

\* every list of at most MaxHits hits
HitLists == UNION { [1..n -> Hits] : n \in 0..MaxHits }
\* the lists used when several invocations are interleaved
ConcHitLists == { <<>>, <<Hit1>>, <<Hit3, Hit2>> }

\* how long a collaborator call may take, in ticks
Delays == 0..MaxElapsed

(* ------------------------ pure helpers --------------------------------- *)

\* three digits of the fractional part
Pad3(n) == IF n < 10 THEN "00" \o ToString(n)
           ELSE IF n < 100 THEN "0" \o ToString(n)
           ELSE ToString(n)

\* the digits of ".3f" for a magnitude held in thousandths
Fmt3Abs(n) == ToString(n \div 1000) \o "." \o Pad3(n % 1000)

\* f"{hit.score:.3f}" for a score held in thousandths: the sign, then the
\* digits of the magnitude (-0.05 is "-0.050")
Fmt3(score) == IF score < 0 THEN "-" \o Fmt3Abs(0 - score) ELSE Fmt3Abs(score)

\* hit.payload.get("filename", f"chunk_{i}")
Filename(i, hit) ==
    IF "filename" \in DOMAIN hit.payload THEN hit.payload.filename
    ELSE "chunk_" \o ToString(i)

\* f"[Source: {filename}, Score: {hit.score:.3f}]\n{chunk_content}"
Block(i, hit) ==
    "[Source: " \o Filename(i, hit) \o ", Score: " \o Fmt3(hit.score) \o "]\n"
        \o hit.payload.content

\* the loop over enumerate(search_results): context_chunks after n hits
RECURSIVE ContextChunks(_, _)
ContextChunks(hits, n) ==
    IF n = 0 THEN <<>>
    ELSE IF "content" \in DOMAIN hits[n].payload
         THEN Append(ContextChunks(hits, n - 1), Block(n - 1, hits[n]))
         ELSE ContextChunks(hits, n - 1)

\* the loop over enumerate(search_results): source_attribution after n hits
RECURSIVE SourceAttribution(_, _)
SourceAttribution(hits, n) ==
    IF n = 0 THEN <<>>
    ELSE IF "content" \in DOMAIN hits[n].payload
         THEN Append(SourceAttribution(hits, n - 1), Filename(n - 1, hits[n]))
         ELSE SourceAttribution(hits, n - 1)

\* sep.join(chunks)
RECURSIVE Join(_, _)
Join(chunks, sep) ==
    IF Len(chunks) = 0 THEN ""
    ELSE IF Len(chunks) = 1 THEN chunks[1]
    ELSE chunks[1] \o sep \o Join(Tail(chunks), sep)

\* "\n\n---\n\n".join(context_chunks)
Context(context_chunks) == Join(context_chunks, "\n\n---\n\n")

\* the prompt of query_rag
RagPrompt(context, query_text) ==
    "You are a knowledgeable teaching assistant for the \"Physical AI & Humanoid Robotics\" textbook.\n\n"
    \o "RELEVANT TEXTBOOK EXCERPTS:\n" \o context \o "\n\n"
    \o "STUDENT QUESTION: " \o query_text \o "\n\n"
    \o "INSTRUCTIONS (CRITICAL):\n"
    \o "1. Answer STRICTLY based on the textbook excerpts above\n"
    \o "2. If information is NOT in the excerpts, say: \"This topic is not covered in the available textbook chapters.\"\n"
    \o "3. Keep answers concise and technical\n"
    \o "4. Reference specific chapters/sources when possible\n"
    \o "5. Use markdown formatting for readability\n\n"
    \o "ASSISTANT'S ANSWER:"

\* the prompt of query_selected_text
SelectedPrompt(selected_text, query_text) ==
    "You are a helpful assistant. Answer based STRICTLY on the following selected text:\n\n"
    \o "SELECTED TEXT:\n" \o selected_text \o "\n\n"
    \o "QUESTION: " \o query_text \o "\n\n"
    \o "RULES:\n"
    \o "1. Answer ONLY from the selected text above\n"
    \o "2. If answer is NOT in selected text, say: \"The selected text does not contain this information.\"\n"
    \o "3. Do not use any external knowledge\n"
    \o "4. Be concise and accurate\n\n"
    \o "ANSWER:"

\* set(xs)
SetOf(xs) == { xs[i] : i \in DOMAIN xs }

\* list(xs) in place of list(set(xs)): duplicates are kept
ListOfSet_KeepsDuplicates(xs) == {xs}

\* list(set(xs)): the elements once each, in an order the runtime picks
ListOfSet(xs) ==
    { s \in [1..Cardinality(SetOf(xs)) -> SetOf(xs)] :
        \A i, j \in DOMAIN s : i # j => s[i] # s[j] }

\* [hit.score for hit in search_results]
Scores(hits) == [i \in DOMAIN hits |-> hits[i].score]

(* ------------------------- responses ----------------------------------- *)

NotFoundAnswer == "I couldn't find relevant information in the textbook."

\* query_rag, "if not search_results"
NotFoundResponse(query_text, elapsed) ==
    [answer |-> NotFoundAnswer, sources |-> <<>>, chunks_used |-> 0,
     query |-> query_text, response_time |-> elapsed]

\* the final return without the "model" entry
RagResponse_NoModel(answer, sources, context_chunks, hits, query_text, elapsed) ==
    [answer |-> answer, sources |-> sources,
     chunks_used |-> Len(context_chunks),
     similarity_scores |-> [i \in DOMAIN hits |-> hits[i].score],
     query |-> query_text, response_time |-> elapsed]

\* the final return with chunks_used taken from len(search_results)
RagResponse_CountsHits(answer, sources, context_chunks, hits, query_text, elapsed) ==
    [answer |-> answer, sources |-> sources,
     chunks_used |-> Len(hits),
     similarity_scores |-> [i \in DOMAIN hits |-> hits[i].score],
     query |-> query_text, response_time |-> elapsed, model |-> GEMINI_MODEL]

\* query_rag, the final return
RagResponse(answer, sources, context_chunks, hits, query_text, elapsed) ==
    [answer |-> answer, sources |-> sources,
     chunks_used |-> Len(context_chunks),
     similarity_scores |-> Scores(hits), query |-> query_text,
     response_time |-> elapsed, model |-> GEMINI_MODEL]

\* query_rag, "except Exception as e"
RagErrorResponse(query_text, msg) ==
    [answer |-> "Error processing your query: " \o msg, sources |-> <<>>,
     error |-> msg, query |-> query_text]

\* the final return with the length of the question for that of the text
SelectedResponse_QueryLength(answer, query_text, selected_text, elapsed) ==
    [answer |-> answer, source |-> "User-selected text", query |-> query_text,
     selected_text_length |-> Len(query_text),
     response_time |-> elapsed, model |-> GEMINI_MODEL]

\* query_selected_text, the final return
SelectedResponse(answer, query_text, selected_text, elapsed) ==
    [answer |-> answer, source |-> "User-selected text", query |-> query_text,
     selected_text_length |-> Len(selected_text),
     response_time |-> elapsed, model |-> GEMINI_MODEL]

\* query_selected_text, "except Exception as e"
SelectedErrorResponse(query_text, msg) ==
    [answer |-> "Error: " \o msg, source |-> "Error", query |-> query_text]

(* --------------------------- state ------------------------------------- *)

VARIABLES
    similarity_threshold,   \* RAGService.similarity_threshold (thousandths)
    max_results,            \* RAGService.max_results
    req                     \* the frames of the invocations being served

vars == <<similarity_threshold, max_results, req>>

\* the frame of an invocation that has not been called yet
IdleFrame ==
    [pc |-> "idle", op |-> "none", query_text |-> "", selected_text |-> "",
     elapsed |-> 0, query_embedding |-> <<>>, search_results |-> <<>>,
     context_chunks |-> <<>>, source_attribution |-> <<>>, prompt |-> "",
     calls |-> <<>>, response |-> <<>>]

\* a call of a collaborator: which one, with what, and how it ended
\* (status "pending", "returned" or "raised"; result is the value returned or
\* the message of the exception raised)
Call(service, arg, status, result) ==
    [service |-> service, arg |-> arg, status |-> status, result |-> result]

\* the pending call at the end of the log ends with the given status and result
EndLast(calls, status, result) ==
    [calls EXCEPT ![Len(calls)] = Call(@.service, @.arg, status, result)]

\* RAGService.__init__ in the given environment
InitService(env) ==
    /\ similarity_threshold = getenv(env, "SIMILARITY_THRESHOLD", DefaultSimilarityThreshold)
    /\ max_results = getenv(env, "MAX_RESULTS", DefaultMaxResults)

\* the search call with the default limit in place of self.max_results
SearchArgs_DefaultLimit(vec) ==
    [vector |-> vec, limit |-> DefaultMaxResults,
     score_threshold |-> similarity_threshold]

\* limit= and score_threshold= of the search_vectors call
SearchArgs(vec) ==
    [vector |-> vec, limit |-> max_results, score_threshold |-> similarity_threshold]

Init ==
    /\ \E env \in Environments : InitService(env)
    /\ req = [r \in 1..1 |-> IdleFrame]

InitConc ==
    /\ \E env \in Environments : InitService(env)
    /\ req = [r \in 1..NumReq |-> IdleFrame]

Config == <<similarity_threshold, max_results>>

(* ------------------------- query_rag ----------------------------------- *)

\* query_rag keeping the question on the service object, where every
\* invocation in flight reads it
QueryRag_StoresQueryOnSelf(r, q) ==
    /\ req[r].pc = "idle"
    /\ req' = [o \in DOMAIN req |->
                 IF o = r
                 THEN [req[o] EXCEPT !.pc = "await_embedding", !.op = "query_rag",
                           !.query_text = q, !.elapsed = 0,
                           !.calls = <<Call("embedding", q, "pending", <<>>)>>]
                 ELSE [req[o] EXCEPT !.query_text = q]]
    /\ UNCHANGED Config

\* query_rag up to "await gemini_service.get_embedding(query_text)"
QueryRag(r, q) ==
    /\ req[r].pc = "idle"
    /\ req' = [req EXCEPT ![r] =
                 [@ EXCEPT !.pc = "await_embedding", !.op = "query_rag",
                           !.query_text = q, !.elapsed = 0,
                           !.calls = <<Call("embedding", q, "pending", <<>>)>>]]
    /\ UNCHANGED Config

\* get_embedding awaited outside the try: the exception leaves query_rag
EmbeddingRaises_Propagates(r, msg, d) ==
    /\ req[r].pc = "await_embedding"
    /\ req[r].elapsed + d <= MaxElapsed
    /\ req' = [req EXCEPT ![r] =
                 [@ EXCEPT !.pc = "raised", !.elapsed = @ + d,
                           !.calls = EndLast(@, "raised", msg)]]
    /\ UNCHANGED Config

\* get_embedding raises: the except branch
EmbeddingRaises(r, msg, d) ==
    /\ req[r].pc = "await_embedding"
    /\ req[r].elapsed + d <= MaxElapsed
    /\ req' = [req EXCEPT ![r] =
                 [@ EXCEPT !.pc = "done", !.elapsed = @ + d,
                           !.calls = EndLast(@, "raised", msg),
                           !.response = RagErrorResponse(req[r].query_text, msg)]]
    /\ UNCHANGED Config

\* get_embedding returns and search_vectors raises: the except branch
SearchRaises(r, vec, msg, d) ==
    /\ req[r].pc = "await_embedding"
    /\ req[r].elapsed + d <= MaxElapsed
    /\ req' = [req EXCEPT ![r] =
                 [@ EXCEPT !.pc = "done", !.elapsed = @ + d,
                           !.query_embedding = vec,
                           !.calls = Append(EndLast(@, "returned", vec),
                                            Call("search", SearchArgs(vec), "raised", msg)),
                           !.response = RagErrorResponse(req[r].query_text, msg)]]
    /\ UNCHANGED Config

\* no short-circuit: an empty context goes to the Generation Provider
SearchEmpty_NoShortCircuit(r, vec, d) ==
    /\ req[r].pc = "await_embedding"
    /\ req[r].elapsed + d <= MaxElapsed
    /\ LET prompt == RagPrompt("", req[r].query_text)
       IN req' = [req EXCEPT ![r] =
                 [@ EXCEPT !.pc = "await_generation", !.elapsed = @ + d,
                           !.query_embedding = vec,
                           !.prompt = prompt,
                           !.calls = Append(Append(EndLast(@, "returned", vec),
                                            Call("search", [vector |-> vec,
                                                 limit |-> max_results,
                                                 score_threshold |-> similarity_threshold],
                                                 "returned", <<>>)),
                                            Call("generation", prompt, "pending", <<>>))]]
    /\ UNCHANGED Config

\* get_embedding returns and search_vectors returns no hit: the short-circuit
SearchEmpty(r, vec, d) ==
    /\ req[r].pc = "await_embedding"
    /\ req[r].elapsed + d <= MaxElapsed
    /\ req' = [req EXCEPT ![r] =
                 [@ EXCEPT !.pc = "done", !.elapsed = @ + d,
                           !.query_embedding = vec,
                           !.calls = Append(EndLast(@, "returned", vec),
                                            Call("search", SearchArgs(vec), "returned", <<>>)),
                           !.response = NotFoundResponse(req[r].query_text,
                                                         req[r].elapsed + d)]]
    /\ UNCHANGED Config

\* get_embedding returns, search_vectors returns hits: context and prompt
\* are built, up to "await gemini_service.generate_content(prompt)"
SearchHits(r, vec, hits, d) ==
    /\ req[r].pc = "await_embedding"
    /\ req[r].elapsed + d <= MaxElapsed
    /\ Len(hits) > 0
    /\ LET chunks == ContextChunks(hits, Len(hits))
           prompt == RagPrompt(Context(chunks), req[r].query_text)
       IN req' = [req EXCEPT ![r] =
                 [@ EXCEPT !.pc = "await_generation", !.elapsed = @ + d,
                           !.query_embedding = vec,
                           !.search_results = hits,
                           !.context_chunks = chunks,
                           !.source_attribution = SourceAttribution(hits, Len(hits)),
                           !.prompt = prompt,
                           !.calls = Append(Append(EndLast(@, "returned", vec),
                                            Call("search", SearchArgs(vec), "returned", hits)),
                                            Call("generation", prompt, "pending", <<>>))]]
    /\ UNCHANGED Config

\* generate_content returns: the response is shaped
GenerationReturns(r, answer, d) ==
    /\ req[r].pc = "await_generation"
    /\ req[r].op = "query_rag"
    /\ req[r].elapsed + d <= MaxElapsed
    /\ \E sources \in ListOfSet(req[r].source_attribution) :
         req' = [req EXCEPT ![r] =
                 [@ EXCEPT !.pc = "done", !.elapsed = @ + d,
                           !.calls = EndLast(@, "returned", answer),
                           !.response = RagResponse(answer, sources,
                                            req[r].context_chunks,
                                            req[r].search_results,
                                            req[r].query_text,
                                            req[r].elapsed + d)]]
    /\ UNCHANGED Config

\* generate_content raises and is called again
GenerationRaises_Retries(r, msg, d) ==
    /\ req[r].pc = "await_generation"
    /\ req[r].op = "query_rag"
    /\ req[r].elapsed + d <= MaxElapsed
    /\ Len(req[r].calls) < 5
    /\ req' = [req EXCEPT ![r] =
                 [@ EXCEPT !.elapsed = @ + d,
                           !.calls = Append(EndLast(@, "raised", msg),
                                            Call("generation", req[r].prompt,
                                                 "pending", <<>>))]]
    /\ UNCHANGED Config

\* generate_content raises: the except branch
GenerationRaises(r, msg, d) ==
    /\ req[r].pc = "await_generation"
    /\ req[r].op = "query_rag"
    /\ req[r].elapsed + d <= MaxElapsed
    /\ req' = [req EXCEPT ![r] =
                 [@ EXCEPT !.pc = "done", !.elapsed = @ + d,
                           !.calls = EndLast(@, "raised", msg),
                           !.response = RagErrorResponse(req[r].query_text, msg)]]
    /\ UNCHANGED Config

(* --------------------- query_selected_text ----------------------------- *)

\* query_selected_text up to "await gemini_service.generate_content(prompt)"
QuerySelectedText(r, q, sel) ==
    /\ req[r].pc = "idle"
    /\ LET prompt == SelectedPrompt(sel, q)
       IN req' = [req EXCEPT ![r] =
                 [@ EXCEPT !.pc = "await_generation",
                           !.op = "query_selected_text",
                           !.query_text = q, !.selected_text = sel,
                           !.elapsed = 0, !.prompt = prompt,
                           !.calls = <<Call("generation", prompt, "pending", <<>>)>>]]
    /\ UNCHANGED Config

\* generate_content returns: the response is shaped
SelectedGenerationReturns(r, answer, d) ==
    /\ req[r].pc = "await_generation"
    /\ req[r].op = "query_selected_text"
    /\ req[r].elapsed + d <= MaxElapsed
    /\ req' = [req EXCEPT ![r] =
                 [@ EXCEPT !.pc = "done", !.elapsed = @ + d,
                           !.calls = EndLast(@, "returned", answer),
                           !.response = SelectedResponse(answer, req[r].query_text,
                                            req[r].selected_text,
                                            req[r].elapsed + d)]]
    /\ UNCHANGED Config

\* generate_content raises: the except branch
SelectedGenerationRaises(r, msg, d) ==
    /\ req[r].pc = "await_generation"
    /\ req[r].op = "query_selected_text"
    /\ req[r].elapsed + d <= MaxElapsed
    /\ req' = [req EXCEPT ![r] =
                 [@ EXCEPT !.pc = "done", !.elapsed = @ + d,
                           !.calls = EndLast(@, "raised", msg),
                           !.response = SelectedErrorResponse(req[r].query_text, msg)]]
    /\ UNCHANGED Config

(* ----------------------- specifications -------------------------------- *)

\* what the callers and the collaborators may hand to one invocation
SoloPool ==
    [lists |-> HitLists, vectors |-> Vectors, selected |-> SelectedTexts,
     delays |-> Delays]

\* the same, cut down for several interleaved invocations
ConcPool ==
    [lists |-> ConcHitLists, vectors |-> {<<1, 0>>},
     selected |-> {"The sky is blue."}, delays |-> {0}]

\* a step of one invocation, with inputs of the full pool
Next ==
    \/ \E r \in DOMAIN req, q \in Queries : QueryRag(r, q)
    \/ \E r \in DOMAIN req, msg \in Messages, d \in SoloPool.delays :
          EmbeddingRaises(r, msg, d)
    \/ \E r \in DOMAIN req, vec \in SoloPool.vectors, msg \in Messages,
             d \in SoloPool.delays :
          SearchRaises(r, vec, msg, d)
    \/ \E r \in DOMAIN req, vec \in SoloPool.vectors, d \in SoloPool.delays :
          SearchEmpty(r, vec, d)
    \/ \E r \in DOMAIN req, vec \in SoloPool.vectors, hits \in SoloPool.lists,
             d \in SoloPool.delays :
          SearchHits(r, vec, hits, d)
    \/ \E r \in DOMAIN req, answer \in Answers, d \in SoloPool.delays :
          GenerationReturns(r, answer, d)
    \/ \E r \in DOMAIN req, msg \in Messages, d \in SoloPool.delays :
          GenerationRaises(r, msg, d)
    \/ \E r \in DOMAIN req, q \in Queries, sel \in SoloPool.selected :
          QuerySelectedText(r, q, sel)
    \/ \E r \in DOMAIN req, answer \in Answers, d \in SoloPool.delays :
          SelectedGenerationReturns(r, answer, d)
    \/ \E r \in DOMAIN req, msg \in Messages, d \in SoloPool.delays :
          SelectedGenerationRaises(r, msg, d)

\* a step of one of the interleaved invocations, with inputs of the small pool
NextConc ==
    \/ \E r \in DOMAIN req, q \in Queries : QueryRag(r, q)
    \/ \E r \in DOMAIN req, msg \in Messages, d \in ConcPool.delays :
          EmbeddingRaises(r, msg, d)
    \/ \E r \in DOMAIN req, vec \in ConcPool.vectors, msg \in Messages,
             d \in ConcPool.delays :
          SearchRaises(r, vec, msg, d)
    \/ \E r \in DOMAIN req, vec \in ConcPool.vectors, d \in ConcPool.delays :
          SearchEmpty(r, vec, d)
    \/ \E r \in DOMAIN req, vec \in ConcPool.vectors, hits \in ConcPool.lists,
             d \in ConcPool.delays :
          SearchHits(r, vec, hits, d)
    \/ \E r \in DOMAIN req, answer \in Answers, d \in ConcPool.delays :
          GenerationReturns(r, answer, d)
    \/ \E r \in DOMAIN req, msg \in Messages, d \in ConcPool.delays :
          GenerationRaises(r, msg, d)
    \/ \E r \in DOMAIN req, q \in Queries, sel \in ConcPool.selected :
          QuerySelectedText(r, q, sel)
    \/ \E r \in DOMAIN req, answer \in Answers, d \in ConcPool.delays :
          SelectedGenerationReturns(r, answer, d)
    \/ \E r \in DOMAIN req, msg \in Messages, d \in ConcPool.delays :
          SelectedGenerationRaises(r, msg, d)

\* one invocation at a time, any hit list
Spec == Init /\ [][Next]_vars

\* NumReq invocations interleaved at their suspension points
SpecConc == InitConc /\ [][NextConc]_vars

(* ----------------------- reading a frame -------------------------------- *)

Frames == { req[r] : r \in DOMAIN req }
RagFrames == { f \in Frames : f.op = "query_rag" }
SelectedFrames == { f \in Frames : f.op = "query_selected_text" }

\* the calls of the frame's log made to the given collaborator
CallsTo(f, service) == { i \in DOMAIN f.calls : f.calls[i].service = service }
Returned(f, service) ==
    \E i \in CallsTo(f, service) : f.calls[i].status = "returned"
Raised(f) == \E i \in DOMAIN f.calls : f.calls[i].status = "raised"
RaisedMessage(f) ==
    f.calls[CHOOSE i \in DOMAIN f.calls : f.calls[i].status = "raised"].result

\* the hit list the vector index returned to the frame
ReturnedHits(f) ==
    f.calls[CHOOSE i \in CallsTo(f, "search") : f.calls[i].status = "returned"].result

\* the frame returned the response built after a generated answer
Succeeded(f) == f.pc = "done" /\ Returned(f, "generation")

\* positions of the hits that carry content
WithContent(hits) == { i \in DOMAIN hits : "content" \in DOMAIN hits[i].payload }

(* ------------------------------ C1 -------------------------------------- *)

\* C1: whenever the vector search of a query_rag invocation returned zero
\* hits, the invocation has returned the response with chunks_used = 0,
\* sources = [], answer = the fixed not-found sentence, and its log holds no
\* call of the Generation Provider.
C1_NotFoundShortCircuit ==
    \A f \in RagFrames :
        (Returned(f, "search") /\ ReturnedHits(f) = <<>>) =>
            /\ f.pc = "done"
            /\ f.response.chunks_used = 0
            /\ f.response.sources = <<>>
            /\ f.response.answer = "I couldn't find relevant information in the textbook."
            /\ CallsTo(f, "generation") = {}

C1_Witness ==
    \E f \in RagFrames :
        /\ f.pc = "done"
        /\ Returned(f, "search") /\ ReturnedHits(f) = <<>>
        /\ f.response.chunks_used = 0

(* ------------------------------ C2 -------------------------------------- *)

\* C2: whenever one of the three upstream calls of a query_rag invocation
\* raised, the invocation has returned (nothing propagates to the caller) a
\* response whose error field is the message and whose answer is
\* "Error processing your query: <message>".
C2_RagFailureIsAResponse ==
    \A f \in RagFrames :
        Raised(f) =>
            /\ f.pc = "done"
            /\ "error" \in DOMAIN f.response
            /\ f.response.error = RaisedMessage(f)
            /\ f.response.answer = "Error processing your query: " \o RaisedMessage(f)

C2_Witness ==
    /\ \E f \in RagFrames : f.pc = "done" /\ Raised(f) /\ Len(f.calls) = 3
                            /\ "error" \in DOMAIN f.response

(* ------------------------------ C3 -------------------------------------- *)

\* C3: whenever the Generation Provider raised in a query_selected_text
\* invocation, the invocation has returned a response that contains an error
\* field and whose answer is exactly "Error: <message>".
C3_SelectedFailureHasErrorField ==
    \A f \in SelectedFrames :
        Raised(f) =>
            /\ f.pc = "done"
            /\ f.response.answer = "Error: " \o RaisedMessage(f)
            /\ "error" \in DOMAIN f.response

(* ------------------------------ C4 -------------------------------------- *)

\* C4 (as stated): every response returned by query_rag or
\* query_selected_text carries the generation model identifier.
C4_ModelInEveryResponse ==
    \A f \in Frames :
        f.pc = "done" =>
            "model" \in DOMAIN f.response /\ f.response.model = GEMINI_MODEL

\* C4 (amended): a returned response carries the model identifier exactly
\* when it carries a generated answer (the successful response of either
\* operation), and then it is settings.GEMINI_MODEL; the not-found
\* short-circuit and the error-shaped responses carry no model field.
C4_ModelInGeneratedResponses ==
    \A f \in Frames :
        f.pc = "done" =>
            /\ ("model" \in DOMAIN f.response) <=> Returned(f, "generation")
            /\ Returned(f, "generation") => f.response.model = GEMINI_MODEL

C4_Witness ==
    /\ \E f \in RagFrames : Succeeded(f) /\ "model" \in DOMAIN f.response

(* ------------------------------ C5 -------------------------------------- *)

\* C5: for every non-empty hit list, the successful query_rag response has
\* len(sources) <= len(similarity_scores), and chunks_used is the number of
\* hits that carry content, which is the number of blocks of the context.
C5_CountsOfSuccess ==
    \A f \in RagFrames :
        Succeeded(f) =>
            /\ Len(ReturnedHits(f)) > 0
            /\ Len(f.response.sources) <= Len(f.response.similarity_scores)
            /\ Len(f.response.similarity_scores) = Len(ReturnedHits(f))
            /\ f.response.chunks_used = Cardinality(WithContent(ReturnedHits(f)))
            /\ f.response.chunks_used = Len(f.context_chunks)

C5_Witness ==
    \E f \in RagFrames :
        /\ Succeeded(f)
        /\ WithContent(ReturnedHits(f)) # DOMAIN ReturnedHits(f)
        /\ f.response.chunks_used = 1
        /\ Len(f.response.similarity_scores) = 2

(* ------------------------------ C6 -------------------------------------- *)

\* C6: a query_selected_text invocation never calls the Embedding Provider
\* or the Vector Index, calls the Generation Provider once, and its
\* successful response has source "User-selected text" and
\* selected_text_length equal to the character count of the selected text.
C6_SelectedTextCalls ==
    \A f \in SelectedFrames :
        /\ CallsTo(f, "embedding") = {}
        /\ CallsTo(f, "search") = {}
        /\ Cardinality(CallsTo(f, "generation")) = 1
        /\ Succeeded(f) =>
            /\ f.response.source = "User-selected text"
            /\ f.response.selected_text_length = Len(f.selected_text)
            /\ f.selected_text = "The sky is blue." =>
                   f.response.selected_text_length = 16

C6_Witness ==
    \E f \in SelectedFrames :
        /\ Succeeded(f)
        /\ f.selected_text = "The sky is blue."
        /\ f.response.selected_text_length = 16

(* ------------------------------ C7 -------------------------------------- *)

NoDuplicates(xs) == \A i, j \in DOMAIN xs : i # j => xs[i] # xs[j]

\* C7: in every query_rag response the sources list holds each filename at
\* most once, and on the success path its elements are the filenames (or
\* chunk_<index>) of exactly the hits whose blocks are in the context.
C7_SourcesDeduplicated ==
    \A f \in RagFrames :
        f.pc = "done" =>
            /\ NoDuplicates(f.response.sources)
            /\ Succeeded(f) =>
                 SetOf(f.response.sources) =
                    { IF "filename" \in DOMAIN ReturnedHits(f)[i].payload
                      THEN ReturnedHits(f)[i].payload.filename
                      ELSE "chunk_" \o ToString(i - 1)
                      : i \in WithContent(ReturnedHits(f)) }

C7_Witness ==
    \E f \in RagFrames :
        /\ Succeeded(f)
        /\ ReturnedHits(f) = <<Hit1, Hit2>>
        /\ f.response.sources = <<"ch1.pdf">>

(* ------------------------------ C8 -------------------------------------- *)

\* the blocks of the context that come from a hit with a score below the
\* threshold or from a hit beyond the result limit
Excluded(f) ==
    { i \in WithContent(ReturnedHits(f)) :
        ReturnedHits(f)[i].score < similarity_threshold \/ i > max_results }

\* C8 (as stated): whatever list the Vector Index returns, no chunk below
\* the configured similarity threshold or beyond the configured result limit
\* is in the context sent to the Generation Provider.
C8_NoExcludedChunkInContext ==
    \A f \in RagFrames :
        CallsTo(f, "generation") # {} =>
            \A i \in Excluded(f) :
                \A k \in DOMAIN f.context_chunks :
                    f.context_chunks[k] # Block(i - 1, ReturnedHits(f)[i])

\* the list honours the limit and the threshold of the search call
Honours(hits, args) ==
    /\ Len(hits) <= args.limit
    /\ \A i \in DOMAIN hits : hits[i].score >= args.score_threshold

\* C8 (amended): the orchestrator hands the configured max_results and
\* similarity_threshold to the Vector Index and does not filter itself: the
\* context holds, in order, the block of every returned hit that carries
\* content, so no chunk below the threshold or beyond the limit is in the
\* context whenever the returned list honours the limit and threshold given.
C8_ContextIsWhatTheIndexReturned ==
    \A f \in RagFrames :
        \A c \in CallsTo(f, "search") :
            /\ f.calls[c].arg.limit = max_results
            /\ f.calls[c].arg.score_threshold = similarity_threshold
            /\ CallsTo(f, "generation") # {} =>
                 /\ Len(f.context_chunks) = Cardinality(WithContent(ReturnedHits(f)))
                 /\ \A i \in WithContent(ReturnedHits(f)) :
                      \E k \in DOMAIN f.context_chunks :
                          f.context_chunks[k] = Block(i - 1, ReturnedHits(f)[i])
                 /\ Honours(ReturnedHits(f), f.calls[c].arg) => Excluded(f) = {}

C8_Witness ==
    \E f \in RagFrames :
        /\ Succeeded(f)
        /\ max_results = 1 /\ similarity_threshold = 800
        /\ ReturnedHits(f) = <<Hit1>>
        /\ f.context_chunks =
              <<"[Source: ch1.pdf, Score: 0.850]\nA humanoid robot mimics human form.">>

(* ------------------------------ C9 -------------------------------------- *)

CallOrder == <<"embedding", "search", "generation">>

\* the log is an initial part of embedding, search, generation; only its
\* last call may be pending or raised
OrderedLog(f) ==
    /\ Len(f.calls) <= 3
    /\ \A i \in DOMAIN f.calls :
         /\ f.calls[i].service = CallOrder[i]
         /\ i < Len(f.calls) => f.calls[i].status = "returned"

\* the log of g is the log of f with a pending call ended and calls added
Extends(f, g) ==
    /\ Len(f.calls) <= Len(g.calls)
    /\ \A i \in DOMAIN f.calls :
         /\ f.calls[i].service = g.calls[i].service
         /\ f.calls[i].arg = g.calls[i].arg
         /\ f.calls[i].status # "pending" => f.calls[i] = g.calls[i]

\* C9: in a query_rag invocation the collaborators are called in the order
\* embedding, search, generation, each at most once and only after the one
\* before returned; a call that raised ends the invocation with an
\* error-shaped response and no further call is made.
C9_CallOrder ==
    /\ [](\A f \in RagFrames :
            /\ OrderedLog(f)
            /\ Raised(f) => f.pc = "done" /\ "error" \in DOMAIN f.response)
    /\ [][\A r \in DOMAIN req :
            req[r].op = "query_rag" =>
               /\ Extends(req[r], req'[r])
               /\ Raised(req[r]) => req'[r] = req[r]]_vars

C9_Witness ==
    \E f \in RagFrames :
        /\ f.pc = "done" /\ Len(f.calls) = 2 /\ f.calls[2].status = "raised"
        /\ "error" \in DOMAIN f.response

(* ------------------------------ C10 ------------------------------------- *)

\* what the invocation returns when it runs alone and its collaborators
\* answer as recorded in the log
AloneResponse(f) ==
    IF f.op = "query_selected_text"
    THEN IF f.calls[1].status = "raised"
         THEN SelectedErrorResponse(f.query_text, f.calls[1].result)
         ELSE SelectedResponse(f.calls[1].result, f.query_text, f.selected_text, 0)
    ELSE IF Raised(f) THEN RagErrorResponse(f.query_text, RaisedMessage(f))
    ELSE IF ReturnedHits(f) = <<>> THEN NotFoundResponse(f.query_text, 0)
    ELSE LET hits == ReturnedHits(f)
         IN RagResponse(f.calls[3].result,
                        CHOOSE s \in ListOfSet(SourceAttribution(hits, Len(hits))) : TRUE,
                        ContextChunks(hits, Len(hits)), hits, f.query_text, 0)

\* equal but for the elapsed time and the order of the sources
SameResponse(a, b) ==
    /\ DOMAIN a = DOMAIN b
    /\ \A k \in DOMAIN a \ {"response_time", "sources"} : a[k] = b[k]
    /\ "sources" \in DOMAIN a =>
          Len(a.sources) = Len(b.sources) /\ SetOf(a.sources) = SetOf(b.sources)

\* C10: with several invocations interleaved at their suspension points, no
\* step changes similarity_threshold or max_results, no step of one
\* invocation changes the frame of another, and every invocation returns
\* what it returns when run alone with the same collaborator results.
C10_Independent ==
    /\ [][Config' = Config]_vars
    /\ [][\A r, o \in DOMAIN req :
            (o # r /\ req'[r] # req[r]) => req'[o] = req[o]]_vars
    /\ [](\A f \in Frames :
            f.pc = "done" => SameResponse(f.response, AloneResponse(f)))

C10_Witness ==
    /\ Cardinality(DOMAIN req) > 1
    /\ req[1].pc = "done" /\ Succeeded(req[1])
    /\ req[1].op = "query_rag"
    /\ req[2].pc = "await_generation" /\ req[2].op = "query_rag"
    /\ req[2].query_text # req[1].query_text
    /\ ReturnedHits(req[2]) # ReturnedHits(req[1])

====
